---- MODULE Spec2Model ----
(***************************************************************************)
(* A model of packages/server/server.js: the multer disk storage (bucket   *)
(* directory and storage name), the two file filters, the four upload      *)
(* routes with their error middleware, the delete route and the list route.*)
(*                                                                         *)
(* File names, paths, MIME types and URLs are strings; a character is a    *)
(* string of length one.  The module's character set is ASCII, so two      *)
(* stand-ins are used: "~" is an ideograph inside U+4E00..U+9FA5, and "|"   *)
(* is a non-ASCII character outside it.  path is Node's POSIX path module. *)
(***************************************************************************)
EXTENDS Integers, Sequences, FiniteSets, TLC

VARIABLES quota, now, opened, dirs, disk, req, arg, out

vars == <<quota, now, opened, dirs, disk, req, arg, out>>

\* ------------------------------------------------------------------ bounds
\* Longest original filename the naming check enumerates.
MaxNameLen == 3
\* Largest value of the clock: the clock counts the milliseconds of a run,
\* 2024-01-14 ends and 2024-01-15 begins at its last tick.
MaxClock == 1
\* Largest number of concurrent requests of a run.
MaxReq == 3
\* Number of files the storage engine opens in a run of a single request.
MaxFiles == 5

\* ------------------------------------------------------------- characters
Ch(s, i) == SubSeq(s, i, i)

Letters ==
  {"a","b","c","d","e","f","g","h","i","j","k","l","m","n","o","p","q","r","s",
   "t","u","v","w","x","y","z","A","B","C","D","E","F","G","H","I","J","K","L",
   "M","N","O","P","Q","R","S","T","U","V","W","X","Y","Z"}
Digits == {"0","1","2","3","4","5","6","7","8","9"}
\* \u4e00-\u9fa5
CJK == {"~"}

\* c is outside the class [^a-zA-Z0-9\u4e00-\u9fa5] of storage.filename
WordChar(c) == c \in Letters \cup Digits \cup CJK

\* ------------------------------------------------------------ path (POSIX)
RECURSIVE ExtScan(_, _, _)
\* The loop of path.extname, i running from the last character down; the
\* indices kept in st are Node's 0-based ones.
ExtScan(path, i, st) ==
  IF i < 1 THEN st
  ELSE IF Ch(path, i) = "/" THEN
    IF ~st.matchedSlash THEN [st EXCEPT !.startPart = i]
    ELSE ExtScan(path, i - 1, st)
  ELSE
    LET s1 == IF st.end = -1
                THEN [st EXCEPT !.matchedSlash = FALSE, !.end = i]
                ELSE st
        s2 == IF Ch(path, i) = "."
                THEN IF s1.startDot = -1 THEN [s1 EXCEPT !.startDot = i - 1]
                     ELSE IF s1.preDotState # 1 THEN [s1 EXCEPT !.preDotState = 1]
                     ELSE s1
                ELSE IF s1.startDot # -1 THEN [s1 EXCEPT !.preDotState = -1]
                ELSE s1
    IN ExtScan(path, i - 1, s2)

\* path.extname(path)
extname(path) ==
  LET st == ExtScan(path, Len(path),
                    [startDot |-> -1, startPart |-> 0, end |-> -1,
                     matchedSlash |-> TRUE, preDotState |-> 0])
  IN IF \/ st.startDot = -1
        \/ st.end = -1
        \/ st.preDotState = 0
        \/ (st.preDotState = 1 /\ st.startDot = st.end - 1
            /\ st.startDot = st.startPart + 1)
       THEN ""
       ELSE SubSeq(path, st.startDot + 1, st.end)

RECURSIVE BaseScan(_, _, _)
\* The loop of path.basename(path) without a suffix.
BaseScan(path, i, st) ==
  IF i < 1 THEN st
  ELSE IF Ch(path, i) = "/" THEN
    IF ~st.matchedSlash THEN [st EXCEPT !.start = i]
    ELSE BaseScan(path, i - 1, st)
  ELSE IF st.end = -1
    THEN BaseScan(path, i - 1, [st EXCEPT !.matchedSlash = FALSE, !.end = i])
    ELSE BaseScan(path, i - 1, st)

RECURSIVE BaseExtScan(_, _, _, _)
\* The loop of path.basename(path, suffix) with a non-empty suffix.
BaseExtScan(path, suffix, i, st) ==
  IF i < 1 THEN st
  ELSE IF Ch(path, i) = "/" THEN
    IF ~st.matchedSlash THEN [st EXCEPT !.start = i]
    ELSE BaseExtScan(path, suffix, i - 1, st)
  ELSE
    LET s1 == IF st.firstNonSlashEnd = -1
                THEN [st EXCEPT !.matchedSlash = FALSE, !.firstNonSlashEnd = i]
                ELSE st
        s2 == IF s1.extIdx >= 0
                THEN IF Ch(path, i) = Ch(suffix, s1.extIdx + 1)
                       THEN IF s1.extIdx = 0
                              THEN [s1 EXCEPT !.extIdx = -1, !.end = i - 1]
                              ELSE [s1 EXCEPT !.extIdx = s1.extIdx - 1]
                       ELSE [s1 EXCEPT !.extIdx = -1, !.end = s1.firstNonSlashEnd]
                ELSE s1
    IN BaseExtScan(path, suffix, i - 1, s2)

\* path.basename(path, suffix); suffix "" is the call without a suffix
basename(path, suffix) ==
  IF Len(suffix) > 0 /\ Len(suffix) <= Len(path) THEN
    IF suffix = path THEN ""
    ELSE
      LET st == BaseExtScan(path, suffix, Len(path),
                            [start |-> 0, end |-> -1, matchedSlash |-> TRUE,
                             extIdx |-> Len(suffix) - 1, firstNonSlashEnd |-> -1])
          end == IF st.start = st.end THEN st.firstNonSlashEnd
                 ELSE IF st.end = -1 THEN Len(path)
                 ELSE st.end
      IN SubSeq(path, st.start + 1, end)
  ELSE
    LET st == BaseScan(path, Len(path),
                       [start |-> 0, end |-> -1, matchedSlash |-> TRUE])
    IN IF st.end = -1 THEN "" ELSE SubSeq(path, st.start + 1, st.end)

\* path.join(a, b) for a directory a (or '') and one entry name b
join(a, b) == IF a = "" THEN b ELSE a \o "/" \o b

\* ---------------------------------------------------------------- storage
\* path.join(__dirname, 'uploads')
uploadDir == "/app/uploads"

\* new Date().toISOString().split('T')[0] at clock value t
IsoDate(t) == IF t < MaxClock THEN "2024-01-14" ELSE "2024-01-15"

\* storage.destination: the bucket directory of a file arriving at t
destination(t) == join(uploadDir, IsoDate(t))

\* a faulty variant: the base name is kept as the client sent it
ReplaceUnsafeKeep(s) == s

RECURSIVE ReplaceUnsafe(_)
\* basename.replace(/[^a-zA-Z0-9\u4e00-\u9fa5]/g, '_')
ReplaceUnsafe(s) ==
  IF s = "" THEN ""
  ELSE (IF WordChar(Head(s)) THEN Head(s) ELSE "_") \o ReplaceUnsafe(Tail(s))

\* Date.now() + '-' + Math.round(Math.random() * 1E9)
uniqueSuffix(t, rnd) == ToString(t) \o "-" \o ToString(rnd)

\* the safeName of storage.filename
safeName(originalname) ==
  ReplaceUnsafe(basename(originalname, extname(originalname)))

\* storage.filename: `${safeName}-${uniqueSuffix}${ext}`
filename(originalname, t, rnd) ==
  safeName(originalname) \o "-" \o uniqueSuffix(t, rnd) \o extname(originalname)

\* ----------------------------------------------------------- file filters
allowedTypes ==
  [image |-> {"image/jpeg", "image/png", "image/gif", "image/webp", "image/svg+xml"},
   document |-> {"application/pdf", "application/msword",
                 "application/vnd.openxmlformats-officedocument.wordprocessingml.document",
                 "text/plain"},
   video |-> {"video/mp4", "video/webm", "video/ogg"},
   audio |-> {"audio/mpeg", "audio/wav", "audio/ogg"}]

\* Object.values(allowedTypes).flat()
allAllowedTypes == UNION {allowedTypes[k] : k \in DOMAIN allowedTypes}

\* String.prototype.startsWith
startsWith(s, prefix) ==
  Len(s) >= Len(prefix) /\ SubSeq(s, 1, Len(prefix)) = prefix

\* fileFilter of `upload`: TRUE is cb(null, true), FALSE is cb(new Error(...))
fileFilter(mimetype) == mimetype \in allAllowedTypes

\* a faulty variant: the prefix tested lacks the slash
imageFilterNoSlash(mimetype) == startsWith(mimetype, "image")

\* fileFilter of `imageUpload`
imageFilter(mimetype) == startsWith(mimetype, "image/")

\* The routes and the multer instance each one uses.
UploadKinds == {"single", "multiple", "fields", "image"}

\* the fileFilter of the instance behind a route
FilterOf(kind, mimetype) ==
  IF kind = "image" THEN imageFilter(mimetype) ELSE fileFilter(mimetype)

\* ------------------------------------------------------------ the routes
\* The fields each route declares and their maxCount: upload.single('file'),
\* upload.array('files', 5), upload.fields([...]), imageUpload.single('image').
Fields(kind) ==
  CASE kind = "single" -> [file |-> 1]
    [] kind = "multiple" -> [files |-> 5]
    [] kind = "fields" -> [avatar |-> 1, gallery |-> 3, documents |-> 2]
    [] kind = "image" -> [image |-> 1]

\* limits.files of `upload`; `imageUpload` sets none
UploadFilesLimit == 5
HasFilesLimit(kind) == kind # "image"

\* limits.fileSize in MB: 10 * 1024 * 1024 and 5 * 1024 * 1024 bytes
UploadFileSize == 10
ImageFileSize == 5
\* a faulty variant: the image route given the limit of the general ones
FileSizeLimitShared(kind) == UploadFileSize

FileSizeLimit(kind) == IF kind = "image" THEN ImageFileSize ELSE UploadFileSize

\* `${req.protocol}://${req.get('host')}`
Origin == "http://localhost:3016"

RECURSIVE ReplaceBackslash(_)
\* .replace(/\\/g, '/')
ReplaceBackslash(s) ==
  IF s = "" THEN ""
  ELSE (IF Head(s) = "\\" THEN "/" ELSE Head(s)) \o ReplaceBackslash(Tail(s))

\* path.relative(from, to) for a path `to` below the directory `from`
relative(from, to) ==
  IF startsWith(to, from \o "/") THEN SubSeq(to, Len(from) + 2, Len(to)) ELSE to

\* a faulty variant: the URL names the file without its bucket directory
fileUrlFlat(path) == Origin \o "/uploads/" \o basename(path, "")

\* the fileUrl of the upload routes
fileUrl(path) ==
  Origin \o "/uploads/" \o ReplaceBackslash(relative(uploadDir, path))

\* handleMulterError: the 400 answer for each kind of error
handleMulterError(err) ==
  [status |-> 400, success |-> FALSE, data |-> <<>>,
   message |-> CASE err = "LIMIT_FILE_SIZE" -> "file size over the limit (max 10MB)"
                 [] err = "LIMIT_FILE_COUNT" -> "too many files (max 5)"
                 [] err = "LIMIT_UNEXPECTED_FILE" -> "unexpected file field"
                 [] OTHER -> "unsupported file type"]

\* the data of one file in the answers of /single and /multiple
FileData(file) ==
  [originalName |-> file.originalname, filename |-> file.filename,
   mimetype |-> file.mimetype, size |-> file.size, path |-> file.path,
   url |-> fileUrl(file.path)]

\* the data of one file in the answer of /fields
FieldData(file) ==
  [originalName |-> file.originalname, filename |-> file.filename,
   mimetype |-> file.mimetype, size |-> file.size, url |-> fileUrl(file.path)]

Ok(message, data) ==
  [status |-> 200, success |-> TRUE, message |-> message, data |-> data]
Fail(status, message) ==
  [status |-> status, success |-> FALSE, message |-> message, data |-> <<>>]

\* The route handlers after multer succeeded; files is req.files in order.
SingleHandler(files) ==
  IF files = <<>> THEN Fail(400, "no file uploaded")
  ELSE Ok("file uploaded", FileData(files[1]))

MultipleHandler(files) ==
  IF Len(files) = 0 THEN Fail(400, "no file uploaded")
  ELSE Ok("files uploaded", [i \in 1..Len(files) |-> FileData(files[i])])

FieldsHandler(files) ==
  Ok("fields uploaded",
     [f \in {files[i].fieldname : i \in 1..Len(files)} |->
        LET idx == {i \in 1..Len(files) : files[i].fieldname = f}
        IN [k \in 1..Cardinality(idx) |->
              FieldData(files[CHOOSE i \in idx :
                                Cardinality({j \in idx : j < i}) = k - 1])]])

ImageHandler(files) ==
  IF files = <<>> THEN Fail(400, "no image uploaded")
  ELSE Ok("image uploaded",
          [filename |-> files[1].filename, url |-> fileUrl(files[1].path),
           size |-> files[1].size])

Handler(kind, files) ==
  CASE kind = "single" -> SingleHandler(files)
    [] kind = "multiple" -> MultipleHandler(files)
    [] kind = "fields" -> FieldsHandler(files)
    [] kind = "image" -> ImageHandler(files)

\* --------------------------------------------------------- the file tree
\* dirs: the bucket directories under uploadDir; disk: the regular files, each
\* path mapped to [ino, size, open] (open: a write stream is still writing).
RECURSIVE HasSlash(_)
HasSlash(s) == s # "" /\ (Head(s) = "/" \/ HasSlash(Tail(s)))

\* the file system the fs calls of a handler see
Fs == [dirs |-> dirs, disk |-> disk]

\* the names fs.readdirSync(dir) returns, as a set
Entries(fs, dir) ==
  {relative(dir, p) : p \in {q \in fs.dirs \cup DOMAIN fs.disk :
                               /\ startsWith(q, dir \o "/")
                               /\ ~HasSlash(relative(dir, q))}}

RECURSIVE SeqOf(_)
SeqOf(S) ==
  IF S = {} THEN <<>>
  ELSE LET x == CHOOSE y \in S : TRUE IN <<x>> \o SeqOf(S \ {x})

Perms(S) ==
  {o \in [1..Cardinality(S) -> S] : \A i, j \in 1..Cardinality(S) : o[i] = o[j] => i = j}

\* The orders fs.readdirSync may return: directory-entry order is the file
\* system's.  Every order of uploadDir is drawn; inside a bucket one order is
\* enough, its entries being files with distinct names.
ReadDirs ==
  {[d \in {uploadDir} \cup dirs |->
      IF d = uploadDir THEN o ELSE SeqOf(Entries(Fs, d))] :
     o \in Perms(Entries(Fs, uploadDir))}

\* stat.isDirectory()
isDirectory(fs, path) == path \in fs.dirs

RECURSIVE findFile(_, _, _, _), FindLoop(_, _, _, _, _)
\* a faulty variant: the name is compared before stat.isDirectory() is asked
FindLoopAnyEntry(fs, dir, files, targetFile, rd) ==
  IF files = <<>> THEN ""
  ELSE LET file == Head(files)
           fullPath == join(dir, file)
       IN IF file = targetFile THEN fullPath
          ELSE IF isDirectory(fs, fullPath)
            THEN LET found == findFile(fs, fullPath, targetFile, rd)
                 IN IF found # "" THEN found
                    ELSE FindLoop(fs, dir, Tail(files), targetFile, rd)
          ELSE FindLoop(fs, dir, Tail(files), targetFile, rd)

\* the for loop of findFile over the entries still to visit; "" is null
FindLoop(fs, dir, files, targetFile, rd) ==
  IF files = <<>> THEN ""
  ELSE LET file == Head(files)
           fullPath == join(dir, file)
       IN IF isDirectory(fs, fullPath)
            THEN LET found == findFile(fs, fullPath, targetFile, rd)
                 IN IF found # "" THEN found
                    ELSE FindLoop(fs, dir, Tail(files), targetFile, rd)
            ELSE IF file = targetFile THEN fullPath
            ELSE FindLoop(fs, dir, Tail(files), targetFile, rd)

findFile(fs, dir, targetFile, rd) == FindLoop(fs, dir, rd[dir], targetFile, rd)

RECURSIVE listFiles(_, _, _), ListLoop(_, _, _, _)
\* the for loop of listFiles over the entries still to visit
ListLoop(fs, dir, basePath, items) ==
  IF items = <<>> THEN <<>>
  ELSE LET item == Head(items)
           fullPath == join(dir, item)
           relativePath == join(basePath, item)
       IN (IF isDirectory(fs, fullPath)
             THEN listFiles(fs, fullPath, relativePath)
             ELSE <<[filename |-> item, path |-> relativePath,
                     size |-> fs.disk[fullPath].size,
                     url |-> "/uploads/" \o ReplaceBackslash(relativePath)]>>)
          \o ListLoop(fs, dir, basePath, Tail(items))

listFiles(fs, dir, basePath) ==
  ListLoop(fs, dir, basePath, SeqOf(Entries(fs, dir)))

\* a faulty variant: the file is left where it is
UnlinkNothing(tree, path) == tree

\* fs.unlink(path) on a tree
Unlink(tree, path) == [p \in DOMAIN tree \ {path} |-> tree[p]]

\* --------------------------------------------------------------- requests
Requests == 1..MaxReq

NoResp == [status |-> 0, success |-> FALSE, message |-> "", data |-> <<>>]

\* A request before it arrives.  part: the file part multer is handling (the
\* `file` object; length is the length of its stream in MB and ino the file
\* the write stream opened); uploaded: uploadedFiles.
NoRequest ==
  [kind |-> "none", pc |-> "idle", nfiles |-> 0, filesLeft |-> <<>>,
   part |-> <<>>, uploaded |-> <<>>, err |-> "", target |-> "", found |-> "",
   unlinkErr |-> FALSE, resp |-> NoResp]

\* What the clients send.
OrigNames == {"a.png"}
\* the values Math.round(Math.random() * 1E9) takes
Randoms == {0}
MimeTypes == {"image/png", "application/x-msdownload"}
\* sizes in MB: one within and one beyond the limit of the route
Sizes(kind) == IF kind = "image" THEN {4, 6} ELSE {6, 11}
FieldNames(kind) == DOMAIN Fields(kind) \cup {"other"}

\* the :filename parameters of the delete requests
DeleteNames ==
  LET onDisk == {basename(p, "") : p \in DOMAIN disk}
  IN {"..", "../../etc/passwd"} \cup {IsoDate(t) : t \in 0..quota.clock}
       \cup onDisk \cup {"../../" \o n : n \in onDisk}

\* the requests of a run arrive in the order of their numbers
Arrives(r) ==
  /\ r <= quota.requests
  /\ req[r].pc = "idle"
  /\ \A q \in 1..(r - 1) : req[q].pc # "idle"

\* an upload request reaches multer's middleware
UploadStart(r, kind) ==
  /\ Arrives(r)
  /\ kind \in quota.kinds
  /\ req' = [req EXCEPT ![r] = [@ EXCEPT !.kind = kind, !.pc = "parts",
                                         !.filesLeft = Fields(kind)]]
  /\ UNCHANGED <<quota, now, opened, dirs, disk, arg, out>>

\* the `file` object of a part multer refuses; length is the length of its
\* stream in MB, which multer does not get to read
Part(fieldname, originalname, mimetype, size) ==
  [fieldname |-> fieldname, originalname |-> originalname, mimetype |-> mimetype,
   length |-> size]

TooMany(r) == HasFilesLimit(req[r].kind) /\ req[r].nfiles = UploadFilesLimit
Unexpected(r, fieldname) ==
  IF fieldname \in DOMAIN req[r].filesLeft
    THEN req[r].filesLeft[fieldname] <= 0
    ELSE TRUE

\* busboy's filesLimit: a file part beyond limits.files
FileTooMany(r, fieldname, originalname, mimetype, size) ==
  /\ req[r].pc = "parts"
  /\ TooMany(r)
  /\ req' = [req EXCEPT ![r] = [@ EXCEPT
               !.part = <<Part(fieldname, originalname, mimetype, size)>>,
               !.err = "LIMIT_FILE_COUNT", !.pc = "abort"]]
  /\ UNCHANGED <<quota, now, opened, dirs, disk, arg, out>>

\* a file part under a field the route does not declare, or beyond its maxCount
FileUnexpected(r, fieldname, originalname, mimetype, size) ==
  /\ req[r].pc = "parts"
  /\ ~TooMany(r)
  /\ Unexpected(r, fieldname)
  /\ req' = [req EXCEPT ![r] = [@ EXCEPT
               !.part = <<Part(fieldname, originalname, mimetype, size)>>,
               !.nfiles = @ + 1,
               !.err = "LIMIT_UNEXPECTED_FILE", !.pc = "abort"]]
  /\ UNCHANGED <<quota, now, opened, dirs, disk, arg, out>>

\* a file part the route's fileFilter refuses
FileRejected(r, fieldname, originalname, mimetype, size) ==
  /\ req[r].pc = "parts"
  /\ ~TooMany(r)
  /\ ~Unexpected(r, fieldname)
  /\ ~FilterOf(req[r].kind, mimetype)
  /\ req' = [req EXCEPT ![r] = [@ EXCEPT
               !.part = <<Part(fieldname, originalname, mimetype, size)>>,
               !.nfiles = @ + 1,
               !.filesLeft = [@ EXCEPT ![fieldname] = @ - 1],
               !.err = "FILTER", !.pc = "abort"]]
  /\ UNCHANGED <<quota, now, opened, dirs, disk, arg, out>>

\* A file part that passes: storage.destination at t1 (mkdirSync), then
\* storage.filename at t2, then the write stream opens the file (truncating
\* a file already at that path).
FileAccepted(r, fieldname, originalname, mimetype, size, t1, t2, rnd) ==
  /\ req[r].pc = "parts"
  /\ ~TooMany(r)
  /\ ~Unexpected(r, fieldname)
  /\ FilterOf(req[r].kind, mimetype)
  /\ opened < quota.files
  /\ now <= t1 /\ t1 <= t2
  /\ LET dateDir == destination(t1)
         name == filename(originalname, t2, rnd)
         path == join(dateDir, name)
         file == [fieldname |-> fieldname, originalname |-> originalname,
                  mimetype |-> mimetype, length |-> size, destination |-> dateDir,
                  filename |-> name, path |-> path]
     IN /\ dirs' = dirs \cup {dateDir}
        /\ disk' = [p \in DOMAIN disk \cup {path} |->
                      IF p = path
                        THEN [ino |-> IF path \in DOMAIN disk THEN disk[path].ino
                                      ELSE opened + 1,
                              size |-> 0, open |-> TRUE]
                        ELSE disk[p]]
        /\ req' = [req EXCEPT ![r] = [@ EXCEPT
                     !.part = <<file @@ [ino |-> disk'[path].ino]>>,
                     !.nfiles = @ + 1,
                     !.filesLeft = [@ EXCEPT ![fieldname] = @ - 1],
                     !.pc = "writing"]]
  /\ now' = t2
  /\ opened' = opened + 1
  /\ UNCHANGED <<quota, arg, out>>

\* the bytes written reach the file only while the path still names it
Written(tree, file, size) ==
  IF (IF file.path \in DOMAIN tree THEN tree[file.path].ino = file.ino ELSE FALSE)
    THEN [tree EXCEPT ![file.path] = [@ EXCEPT !.size = size, !.open = FALSE]]
    ELSE tree

\* the write stream of a file within the size limit finishes
FileWritten(r) ==
  /\ req[r].pc = "writing"
  /\ LET file == req[r].part[1]
     IN /\ file.length <= FileSizeLimit(req[r].kind)
        /\ disk' = Written(disk, file, file.length)
        /\ req' = [req EXCEPT ![r] = [@ EXCEPT
                     !.uploaded = Append(@, file @@ [size |-> file.length]),
                     !.pc = "parts"]]
  /\ UNCHANGED <<quota, now, opened, dirs, arg, out>>

\* The stream passes limits.fileSize: busboy truncates it, the write stream
\* finishes with the bytes up to the limit, multer aborts.
FileTooLarge(r) ==
  /\ req[r].pc = "writing"
  /\ LET file == req[r].part[1]
         limit == FileSizeLimit(req[r].kind)
     IN /\ file.length > limit
        /\ disk' = Written(disk, file, limit)
        /\ req' = [req EXCEPT ![r] = [@ EXCEPT
                     !.uploaded = Append(@, file @@ [size |-> limit]),
                     !.err = "LIMIT_FILE_SIZE", !.pc = "abort"]]
  /\ UNCHANGED <<quota, now, opened, dirs, arg, out>>

\* the paths of a sequence of files
Paths(files) == {files[i].path : i \in 1..Len(files)}

\* a faulty variant: the error is answered and the uploaded files stay
AbortDoneKeep(r) ==
  /\ req[r].pc = "abort"
  /\ req' = [req EXCEPT ![r] = [@ EXCEPT
               !.resp = handleMulterError(req[r].err), !.pc = "done"]]
  /\ UNCHANGED <<quota, now, opened, dirs, disk, arg, out>>

\* multer's abort: every uploaded file of the request is unlinked, then the
\* error reaches handleMulterError
AbortDone(r) ==
  /\ req[r].pc = "abort"
  /\ disk' = [p \in DOMAIN disk \ Paths(req[r].uploaded) |-> disk[p]]
  /\ req' = [req EXCEPT ![r] = [@ EXCEPT
               !.resp = handleMulterError(req[r].err), !.pc = "done"]]
  /\ UNCHANGED <<quota, now, opened, dirs, arg, out>>

\* the request body ends without an error: the route handler answers
Finish(r) ==
  /\ req[r].pc = "parts"
  /\ req' = [req EXCEPT ![r] = [@ EXCEPT
               !.resp = Handler(req[r].kind, req[r].uploaded), !.pc = "done"]]
  /\ UNCHANGED <<quota, now, opened, dirs, disk, arg, out>>

RECURSIVE Walk(_, _, _), WalkLoop(_, _, _, _)
\* the regular files the for loop of findFile calls statSync on, in order,
\* when none of them is returned
WalkLoop(fs, dir, files, rd) ==
  IF files = <<>> THEN <<>>
  ELSE LET fullPath == join(dir, Head(files))
       IN (IF isDirectory(fs, fullPath) THEN Walk(fs, fullPath, rd)
           ELSE <<fullPath>>)
          \o WalkLoop(fs, dir, Tail(files), rd)

Walk(fs, dir, rd) == WalkLoop(fs, dir, rd[dir], rd)

\* findFile(uploadDir, targetFile) calls statSync on path: no file visited
\* before it is named targetFile
Reaches(fs, targetFile, rd, path) ==
  LET files == Walk(fs, uploadDir, rd)
  IN \E k \in DOMAIN files :
       /\ files[k] = path
       /\ \A j \in 1..(k - 1) : basename(files[j], "") # targetFile

\* fs.unlink(path) of request d is queued and the thread pool has not run it:
\* the unlink of a delete request, or of a file multer's abort removes
PendingUnlink(d, path) ==
  /\ path \in DOMAIN disk
  /\ IF req[d].pc = "unlink" THEN path = req[d].found
     ELSE IF req[d].pc = "abort" THEN path \in Paths(req[d].uploaded)
     ELSE FALSE

\* request d once its pending unlink has run
Unlinked(d) ==
  IF req[d].pc = "unlink"
    THEN [req[d] EXCEPT !.unlinkErr = FALSE, !.pc = "unlinked"]
    ELSE req[d]

\* DELETE /api/upload/delete/:filename, findFile returning null: 404
DeleteNotFound(r, name, rd) ==
  /\ Arrives(r)
  /\ LET safeFilename == basename(name, "")
         filePath == findFile(Fs, uploadDir, safeFilename, rd)
     IN /\ filePath = ""
        /\ req' = [req EXCEPT ![r] = [@ EXCEPT
                     !.kind = "delete", !.target = name, !.pc = "done",
                     !.resp = Fail(404, "file does not exist")]]
  /\ UNCHANGED <<quota, now, opened, dirs, disk, arg, out>>

\* the same route, findFile returning a path: fs.unlink is queued
DeleteFound(r, name, rd) ==
  /\ Arrives(r)
  /\ LET safeFilename == basename(name, "")
         filePath == findFile(Fs, uploadDir, safeFilename, rd)
     IN /\ filePath # ""
        /\ req' = [req EXCEPT ![r] = [@ EXCEPT
                     !.kind = "delete", !.target = name, !.found = filePath,
                     !.pc = "unlink"]]
  /\ UNCHANGED <<quota, now, opened, dirs, disk, arg, out>>

\* The same route while the thread pool runs a pending unlink of request d
\* between a readdirSync and the statSync of that entry: statSync throws, the
\* route does not catch it and the global error handler answers.
DeleteThrows(r, name, d, path, rd) ==
  /\ Arrives(r)
  /\ PendingUnlink(d, path)
  /\ Reaches(Fs, basename(name, ""), rd, path)
  /\ disk' = Unlink(disk, path)
  /\ req' = [req EXCEPT
               ![d] = Unlinked(d),
               ![r] = [@ EXCEPT !.kind = "delete", !.target = name, !.pc = "done",
                                !.resp = Fail(500, "internal server error")]]
  /\ UNCHANGED <<quota, now, opened, dirs, arg, out>>

\* the thread pool runs the unlink of a delete request
UnlinkRuns(r) ==
  /\ req[r].pc = "unlink"
  /\ disk' = Unlink(disk, req[r].found)
  /\ req' = [req EXCEPT ![r] = [@ EXCEPT
               !.unlinkErr = (req[r].found \notin DOMAIN disk), !.pc = "unlinked"]]
  /\ UNCHANGED <<quota, now, opened, dirs, arg, out>>

\* the callback of fs.unlink answers
UnlinkDone(r) ==
  /\ req[r].pc = "unlinked"
  /\ req' = [req EXCEPT ![r] = [@ EXCEPT
               !.pc = "done",
               !.resp = IF req[r].unlinkErr THEN Fail(500, "failed to delete file")
                        ELSE Ok("file deleted", <<>>)]]
  /\ UNCHANGED <<quota, now, opened, dirs, disk, arg, out>>

\* GET /api/upload/list
List(r) ==
  /\ Arrives(r)
  /\ req' = [req EXCEPT ![r] = [@ EXCEPT
               !.kind = "list", !.pc = "done",
               !.resp = Ok("", listFiles(Fs, uploadDir, ""))]]
  /\ UNCHANGED <<quota, now, opened, dirs, disk, arg, out>>

\* the same route with a pending unlink of request d run between a
\* readdirSync and the statSync of that entry: the catch answers 500
ListThrows(r, d, path) ==
  /\ Arrives(r)
  /\ PendingUnlink(d, path)
  /\ disk' = Unlink(disk, path)
  /\ req' = [req EXCEPT
               ![d] = Unlinked(d),
               ![r] = [@ EXCEPT !.kind = "list", !.pc = "done",
                                !.resp = Fail(500, "failed to list files")]]
  /\ UNCHANGED <<quota, now, opened, dirs, arg, out>>

\* ------------------------------------------------------ the server's runs
\* The runs explored.  One request to any upload route that may open MaxFiles
\* files within one clock tick; or two concurrent requests (uploads to
\* /single and /multiple, deletes, lists) that may open two files, around
\* midnight; or MaxReq concurrent requests (uploads to /single, deletes,
\* lists) that may open one file.
Quotas ==
  {[requests |-> 1, files |-> MaxFiles, clock |-> 1, kinds |-> UploadKinds],
   [requests |-> 2, files |-> 2, clock |-> MaxClock,
    kinds |-> {"single", "multiple"}],
   [requests |-> MaxReq, files |-> 1, clock |-> 0, kinds |-> {"single"}]}

\* after app.listen: uploadDir exists and is empty
Started ==
  /\ now = 0
  /\ opened = 0
  /\ dirs = {}
  /\ disk = <<>>
  /\ req = [r \in Requests |-> NoRequest]

NoArg == [fn |-> "none"]

Init ==
  /\ quota \in Quotas
  /\ Started
  /\ arg = NoArg
  /\ out = <<>>

FilePart(r) ==
  \E fieldname \in FieldNames(req[r].kind), originalname \in OrigNames,
     mimetype \in MimeTypes, size \in Sizes(req[r].kind) :
    \/ FileTooMany(r, fieldname, originalname, mimetype, size)
    \/ FileUnexpected(r, fieldname, originalname, mimetype, size)
    \/ FileRejected(r, fieldname, originalname, mimetype, size)
    \/ \E t1 \in 0..quota.clock, t2 \in 0..quota.clock, rnd \in Randoms :
         FileAccepted(r, fieldname, originalname, mimetype, size, t1, t2, rnd)

Delete(r) ==
  \E name \in DeleteNames :
    \/ \E rd \in ReadDirs : DeleteNotFound(r, name, rd)
    \/ \E rd \in ReadDirs : DeleteFound(r, name, rd)
    \/ \E d \in Requests, path \in DOMAIN disk, rd \in ReadDirs :
         DeleteThrows(r, name, d, path, rd)

Next ==
  \E r \in Requests :
    \/ \E kind \in UploadKinds : UploadStart(r, kind)
    \/ req[r].pc = "parts" /\ FilePart(r)
    \/ FileWritten(r)
    \/ FileTooLarge(r)
    \/ AbortDone(r)
    \/ Finish(r)
    \/ Arrives(r) /\ Delete(r)
    \/ UnlinkRuns(r)
    \/ UnlinkDone(r)
    \/ List(r)
    \/ \E d \in Requests, path \in DOMAIN disk : ListThrows(r, d, path)

Spec == Init /\ [][Next]_vars

\* --------------------------------------------- storage.filename on its own
\* The characters original filenames are made of: letters, a digit, the
\* characters storage.filename writes itself, separators, a blank, and the
\* two stand-ins for non-ASCII characters.
Alphabet == {"a", "Z", "7", "_", "-", ".", "/", "\\", " ", "~", "|"}

RECURSIVE Strings(_)
\* the strings over Alphabet of length n at most
Strings(n) ==
  IF n = 0 THEN {""}
  ELSE LET S == Strings(n - 1) IN S \cup {s \o c : s \in S, c \in Alphabet}

InitName ==
  /\ quota = [requests |-> 0, files |-> 0, clock |-> 0, kinds |-> {}]
  /\ Started
  /\ arg \in {[fn |-> "filename", originalname |-> n, t |-> t, rnd |-> k] :
               n \in Strings(MaxNameLen), t \in {0, MaxClock}, k \in {0, 999999999}}
  /\ out = <<>>

\* multer calls storage.filename for a file named arg.originalname
NameFile ==
  /\ arg.fn = "filename"
  /\ out = <<>>
  /\ out' = <<filename(arg.originalname, arg.t, arg.rnd)>>
  /\ UNCHANGED <<quota, now, opened, dirs, disk, req, arg>>

SpecName == InitName /\ [][NameFile]_vars

\* ------------------------------------------------ the filters on their own
MimeTops == {"image", "application", "video", "audio", "text", "Image", "images"}
MimeSubs ==
  {"jpeg", "png", "gif", "webp", "svg+xml", "bmp", "pdf", "msword", "plain",
   "mp4", "webm", "ogg", "mpeg", "wav", "x-msdownload", "html", ""}

\* the declared MIME types the filters are given
MimeStrings ==
  {top \o "/" \o sub : top \in MimeTops, sub \in MimeSubs}
    \cup {"", "image", "image/png; charset=x",
          "application/vnd.openxmlformats-officedocument.wordprocessingml.document",
          "application/vnd.openxmlformats-officedocument.spreadsheetml.sheet"}

InitType ==
  /\ quota = [requests |-> 0, files |-> 0, clock |-> 0, kinds |-> {}]
  /\ Started
  /\ arg \in {[fn |-> "fileFilter", kind |-> k, mimetype |-> m] :
               k \in UploadKinds, m \in MimeStrings}
  /\ out = <<>>

\* multer calls the route's fileFilter for a part declared arg.mimetype
FilterFile ==
  /\ arg.fn = "fileFilter"
  /\ out = <<>>
  /\ out' = <<FilterOf(arg.kind, arg.mimetype)>>
  /\ UNCHANGED <<quota, now, opened, dirs, disk, req, arg>>

SpecType == InitType /\ [][FilterFile]_vars

\* ================================================================ claims
RECURSIVE Chars(_)
\* the characters of a string
Chars(s) == IF s = "" THEN {} ELSE {Head(s)} \cup Chars(Tail(s))

\* ASCII letters, digits, underscore and CJK Unified Ideographs
AllowList == Letters \cup Digits \cup {"_"} \cup CJK

RECURSIVE StripSlashes(_)
\* a string without its trailing slashes
StripSlashes(s) ==
  IF s # "" /\ SubSeq(s, Len(s), Len(s)) = "/"
    THEN StripSlashes(SubSeq(s, 1, Len(s) - 1))
    ELSE s

\* s = base \o "-" \o millis \o "-" \o rand \o ext, where base has allow-listed
\* characters only and ext is empty or begins with a dot, holds no "/" and
\* ends the original filename (trailing slashes aside)
IsStorageName(s, original, t, rnd) ==
  \E i \in 0..Len(s), j \in 0..Len(s) :
    /\ i <= j
    /\ Chars(SubSeq(s, 1, i)) \subseteq AllowList
    /\ SubSeq(s, i + 1, j) = "-" \o ToString(t) \o "-" \o ToString(rnd)
    /\ LET ext == SubSeq(s, j + 1, Len(s))
       IN /\ ext = "" \/ Head(ext) = "."
          /\ "/" \notin Chars(ext)
          /\ LET originalname == StripSlashes(original)
             IN /\ Len(ext) <= Len(originalname)
                /\ ext = SubSeq(originalname, Len(originalname) - Len(ext) + 1,
                                Len(originalname))

\* C1 as claimed: the storage name of every original filename holds no path
\* separator and no character outside the allow-list of ASCII letters, digits,
\* underscore and CJK ideographs.
C1_AllowListOnly ==
  out # <<>> => /\ "/" \notin Chars(out[1])
                /\ Chars(out[1]) \subseteq AllowList

\* C1 as amended: the storage name of every original filename holds no "/";
\* it is a base of allow-listed characters, then "-<millis>-<rand>", then the
\* original extension, which is empty or begins with a dot and is otherwise
\* kept as the client sent it.
C1_StorageName ==
  out # <<>> => /\ "/" \notin Chars(out[1])
                /\ IsStorageName(out[1], arg.originalname, arg.t, arg.rnd)

\* C1: an original filename with a blank base and a non-ASCII extension has
\* been named
C1_Witness ==
  /\ out # <<>>
  /\ arg.originalname = " .|"
  /\ out[1] = "_-0-0.|"

\* the 15 types of the image, document, video and audio allow-lists
GeneralTypes ==
  {"image/jpeg", "image/png", "image/gif", "image/webp", "image/svg+xml",
   "application/pdf", "application/msword",
   "application/vnd.openxmlformats-officedocument.wordprocessingml.document",
   "text/plain", "video/mp4", "video/webm", "video/ogg",
   "audio/mpeg", "audio/wav", "audio/ogg"}

\* C8: the general routes (single, multiple, fields) accept a part exactly
\* when its declared type is one of the 15 allow-listed types, the image route
\* exactly when it begins with "image/"; so application/x-msdownload is
\* refused on every route and image/png accepted on every route.
C8_TypePolicy ==
  /\ Cardinality(GeneralTypes) = 15
  /\ out # <<>> =>
       /\ out[1] = IF arg.kind = "image"
                     THEN /\ Len(arg.mimetype) >= 6
                          /\ SubSeq(arg.mimetype, 1, 6) = "image/"
                     ELSE arg.mimetype \in GeneralTypes
       /\ arg.mimetype = "application/x-msdownload" => out[1] = FALSE
       /\ arg.mimetype = "image/png" => out[1] = TRUE

\* C8: the image route has accepted a type outside the general allow-list
C8_Witness ==
  /\ out = <<TRUE>>
  /\ arg.kind = "image"
  /\ arg.mimetype = "image/bmp"

\* ------------------------------------------------ claims about the routes
Done(r) == req[r].pc = "done"
IsUpload(r) == req[r].kind \in UploadKinds

RECURSIVE AfterSlash(_)
\* what follows the last "/" of a string
AfterSlash(s) == IF HasSlash(s) THEN AfterSlash(Tail(s)) ELSE s

\* the final path segment of a path
LastSegment(s) == AfterSlash(StripSlashes(s))

RECURSIVE Segments(_)
\* the segments of a path
Segments(s) ==
  IF s = "" THEN {}
  ELSE IF Head(s) = "/" THEN Segments(Tail(s))
  ELSE LET rest == AfterSlash(s)
       IN IF HasSlash(s)
            THEN {SubSeq(s, 1, Len(s) - Len(rest) - 1)} \cup Segments(rest)
            ELSE {s}

RECURSIVE AfterMark(_, _)
\* what follows the first occurrence of mark in s
AfterMark(s, mark) ==
  IF s = "" THEN ""
  ELSE IF Len(s) >= Len(mark) /\ SubSeq(s, 1, Len(mark)) = mark
    THEN SubSeq(s, Len(mark) + 1, Len(s))
  ELSE AfterMark(Tail(s), mark)

\* the size limits as the claims give them, in MB
ClaimedLimit(kind) == IF kind = "image" THEN 5 ELSE 10

TooLargeAnswer(resp) ==
  /\ resp.status = 400
  /\ ~resp.success
  /\ resp.message = "file size over the limit (max 10MB)"

\* the parts of request r multer has looked at: the files it stored and the
\* part it refused
PartsOf(r) ==
  req[r].uploaded \o
    (IF req[r].err \in {"LIMIT_FILE_COUNT", "LIMIT_UNEXPECTED_FILE", "FILTER"}
       THEN req[r].part ELSE <<>>)

\* no file of the tree is the file the write stream of `file` opened
Gone(file) == \A p \in DOMAIN disk : disk[p].ino # file.ino

\* the bucket directory of 2024-01-15
Bucket15 == join(uploadDir, "2024-01-15")

\* the unlink of delete request r succeeds in this step
Unlinks(r) ==
  /\ req[r].kind = "delete"
  /\ req[r].pc = "unlink"
  /\ req'[r].pc = "unlinked"
  /\ ~req'[r].unlinkErr

\* the file at path is neither in the tree nor in a listing after this step
Removed(path) ==
  /\ path \notin DOMAIN disk'
  /\ LET files == listFiles([dirs |-> dirs', disk |-> disk'], uploadDir, "")
     IN \A i \in DOMAIN files : join(uploadDir, files[i].path) # path

\* C2 as claimed: whatever the tree holds, when a regular file named f is in
\* bucket 2024-01-15 and a delete request for the bare name f succeeds, that
\* file is removed and a listing that follows has no record of it.
C2_DeleteInBucket ==
  [][\A r \in Requests :
       LET f == req[r].target
       IN (Unlinks(r) /\ ~HasSlash(f) /\ join(Bucket15, f) \in DOMAIN disk)
            => Removed(join(Bucket15, f))]_vars

\* C2 as amended: when a regular file named f is in bucket 2024-01-15, no
\* other regular file of the tree is named f, and a delete request for the
\* bare name f succeeds, that file is removed and a listing that follows has
\* no record of it.
C2_DeleteOnlyFile ==
  [][\A r \in Requests :
       LET f == req[r].target
       IN (/\ Unlinks(r)
           /\ ~HasSlash(f)
           /\ join(Bucket15, f) \in DOMAIN disk
           /\ \A p \in DOMAIN disk : LastSegment(p) = f => p = join(Bucket15, f))
            => Removed(join(Bucket15, f))]_vars

\* C2: a delete request for a bare name has been answered with success and
\* the file it removed was in bucket 2024-01-15
C2_Witness ==
  \E r \in Requests :
    /\ Done(r)
    /\ req[r].kind = "delete"
    /\ req[r].resp.status = 200
    /\ ~HasSlash(req[r].target)
    /\ req[r].found = join(Bucket15, req[r].target)
    /\ req[r].found \notin DOMAIN disk

\* C3: whatever filename the delete route is given, the path the lookup
\* returns is a regular file under the storage root whose final segment is
\* the basename of the input, nothing but that path is unlinked, and no
\* directory is ever removed.
C3_Lookup ==
  [][/\ \A r \in Requests :
          /\ (req[r].pc = "idle" /\ req'[r].kind = "delete" /\ req'[r].found # "")
               => LET p == req'[r].found
                  IN /\ p \in DOMAIN disk
                     /\ p \notin dirs
                     /\ startsWith(p, uploadDir \o "/")
                     /\ ".." \notin Segments(p)
                     /\ AfterSlash(p) = LastSegment(req'[r].target)
          /\ (req[r].pc = "unlink" /\ req'[r].pc = "unlinked")
               => DOMAIN disk \ DOMAIN disk' \subseteq {req[r].found}
     /\ dirs \subseteq dirs']_vars

\* C3: the lookup has returned a path for a filename with directory
\* components
C3_Witness ==
  \E r \in Requests :
    /\ req[r].kind = "delete"
    /\ req[r].pc = "unlink"
    /\ HasSlash(req[r].target)
    /\ req[r].found \in DOMAIN disk

\* C4 as claimed: an answered upload request holding a file larger than the
\* route's limit (10 MB, on the image route 5 MB) was rejected as too large
\* and nothing of that file is left on disk.
C4_TooLarge ==
  \A r \in Requests :
    (Done(r) /\ IsUpload(r)) =>
      \A i \in DOMAIN PartsOf(r) :
        LET file == PartsOf(r)[i]
        IN file.length > ClaimedLimit(req[r].kind) =>
             /\ TooLargeAnswer(req[r].resp)
             /\ i <= Len(req[r].uploaded) => Gone(file)

\* C4 as amended: an answered upload request one of whose files passed the
\* count, field and type checks, reached the disk writer and proved larger
\* than the route's limit (10 MB, on the image route 5 MB) was rejected as too
\* large and nothing of that file is left on disk.
C4_StoredTooLarge ==
  \A r \in Requests :
    (Done(r) /\ IsUpload(r)) =>
      \A i \in DOMAIN req[r].uploaded :
        LET file == req[r].uploaded[i]
        IN file.length > ClaimedLimit(req[r].kind) =>
             /\ TooLargeAnswer(req[r].resp)
             /\ Gone(file)

\* C4: a 6 MB file sent to the image route has been answered
C4_Witness ==
  \E r \in Requests :
    /\ Done(r)
    /\ req[r].kind = "image"
    /\ req[r].uploaded # <<>>
    /\ req[r].uploaded[1].length = 6
    /\ req[r].resp.status = 400

\* the number of parts of request r sent under a field
CountOf(r, field) ==
  Cardinality({i \in DOMAIN PartsOf(r) : PartsOf(r)[i].fieldname = field})

\* C5: a request to the fields route whose parts all pass the type and size
\* policy is accepted exactly when it holds at most 1 avatar, 3 gallery and 2
\* documents files; accepted, it is answered with the records by field name.
C5_FieldCounts ==
  \A r \in Requests :
    (/\ Done(r)
     /\ req[r].kind = "fields"
     /\ \A i \in DOMAIN PartsOf(r) :
          /\ PartsOf(r)[i].mimetype \in GeneralTypes
          /\ PartsOf(r)[i].length <= ClaimedLimit("fields"))
      => /\ req[r].resp.success <=>
              /\ \A i \in DOMAIN PartsOf(r) :
                   PartsOf(r)[i].fieldname \in {"avatar", "gallery", "documents"}
              /\ CountOf(r, "avatar") <= 1
              /\ CountOf(r, "gallery") <= 3
              /\ CountOf(r, "documents") <= 2
         /\ req[r].resp.success =>
              \A f \in DOMAIN req[r].resp.data :
                Len(req[r].resp.data[f]) = CountOf(r, f)

\* the files of request r written whole before another of its files failed
Siblings(r) ==
  {i \in DOMAIN req[r].uploaded :
     req[r].uploaded[i].size = req[r].uploaded[i].length}

\* the failure of request r, one of several files, is answered in this step
FailsNow(r) ==
  /\ req[r].kind \in {"multiple", "fields"}
  /\ req[r].pc = "abort"
  /\ req'[r].pc = "done"
  /\ Siblings(r) # {}

\* C6 as claimed: when a file of a multi-file request fails after others
\* were written, the caller gets a partial-success list with the records of
\* the written files, and those files stay on disk.
C6_PartialSuccess ==
  [][\A r \in Requests :
       FailsNow(r) =>
         /\ req'[r].resp.success
         /\ req'[r].resp.data # <<>>
         /\ \A i \in Siblings(r) :
              req[r].uploaded[i].path \in DOMAIN disk
                => req[r].uploaded[i].path \in DOMAIN disk']_vars

\* C6 as amended: when a file of a multi-file request fails (type refused,
\* too large, too many, unexpected field) after others were written, the
\* caller gets the 400 answer of that failure with no file records, and the
\* files already written are removed from disk.
C6_AllOrNothing ==
  [][\A r \in Requests :
       FailsNow(r) =>
         /\ req'[r].resp.status = 400
         /\ ~req'[r].resp.success
         /\ req'[r].resp.data = <<>>
         /\ \A i \in Siblings(r) : req[r].uploaded[i].path \notin DOMAIN disk']_vars

\* C6: a request to /multiple has been answered after its second file was
\* refused for its type
C6_Witness ==
  \E r \in Requests :
    /\ Done(r)
    /\ req[r].kind = "multiple"
    /\ req[r].err = "FILTER"
    /\ Siblings(r) # {}
    /\ req[r].resp.status = 400

\* the URL the answer of upload request r gives for its i-th file
ResponseUrl(r, i) ==
  LET data == req[r].resp.data
      file == req[r].uploaded[i]
  IN CASE req[r].kind = "multiple" -> data[i].url
       [] req[r].kind = "fields" ->
            data[file.fieldname][Cardinality({j \in 1..i :
               req[r].uploaded[j].fieldname = file.fieldname})].url
       [] OTHER -> data.url

\* C7: for every file a successful upload stored (and no delete has removed
\* since), a listing holds exactly one record, and what follows "/uploads/"
\* in the record's URL is the record's relative path, is what follows
\* "/uploads/" in the URL of the upload's answer, and is
\* "<bucket date>/<storage name>" as written.
C7_RoundTrip ==
  \A r \in Requests :
    (Done(r) /\ IsUpload(r) /\ req[r].resp.success) =>
      \A i \in DOMAIN req[r].uploaded :
        LET file == req[r].uploaded[i]
            written == AfterSlash(file.destination) \o "/" \o file.filename
            files == listFiles(Fs, uploadDir, "")
            records == {k \in DOMAIN files : files[k].path = written}
        IN file.path \in DOMAIN disk =>
             /\ Cardinality(records) = 1
             /\ \A k \in records :
                  /\ files[k].filename = file.filename
                  /\ AfterMark(files[k].url, "/uploads/") = files[k].path
                  /\ AfterMark(files[k].url, "/uploads/")
                       = AfterMark(ResponseUrl(r, i), "/uploads/")
                  /\ AfterMark(files[k].url, "/uploads/") = written

\* C7: an upload to /fields that stored two files has been answered with
\* success and its files are on disk
C7_Witness ==
  \E r \in Requests :
    /\ Done(r)
    /\ req[r].kind = "fields"
    /\ req[r].resp.success
    /\ Len(req[r].uploaded) = 2
    /\ \A i \in DOMAIN req[r].uploaded : req[r].uploaded[i].path \in DOMAIN disk

\* C9: however delete requests for one name interleave with each other and
\* with list requests, every delete is answered with success or not-found and
\* every list with success; none ends in a generic failure.  (Runs in which
\* an upload failed are left aside: there multer removes files as well.)
C9_NoGenericFailure ==
  (\A u \in Requests : req[u].err = "") =>
    \A r \in Requests :
      Done(r) =>
        /\ req[r].kind = "delete" => req[r].resp.status \in {200, 404}
        /\ req[r].kind = "list" => req[r].resp.status = 200

\* C10: however list requests interleave with uploads, a listing holds
\* records only of files whose upload has been answered with success.
C10_ListsCompleted ==
  [][\A r \in Requests :
       (req[r].pc = "idle" /\ req'[r].kind = "list" /\ req'[r].resp.success) =>
         \A i \in DOMAIN req'[r].resp.data :
           \E u \in Requests :
             /\ Done(u)
             /\ IsUpload(u)
             /\ req[u].resp.success
             /\ join(uploadDir, req'[r].resp.data[i].path) \in Paths(req[u].uploaded)]_vars

====
